---- MODULE Spec2Model ----
(***************************************************************************)
(* Model of src/src/file_processor.py: the FileProcessor class.  One       *)
(* FileProcessor reads every .csv file of its input folder, validates each *)
(* table against five required columns, stamps the accepted tables with    *)
(* their origin and concatenates them.  The file system is the             *)
(* environment: its state is the input folder with its ordered listing.    *)
(***************************************************************************)
EXTENDS Integers, Sequences, FiniteSets, TLC

\* ------------------------------------------------------------------------
\* Bounds of the model
\* ------------------------------------------------------------------------
MaxRows == 2     \* data rows of one input file
MaxCalls == 2    \* calls of process_all_files on the one FileProcessor
MaxClock == 4    \* readings of datetime.now() that still advance the clock

\* ------------------------------------------------------------------------
\* Small helpers
\* ------------------------------------------------------------------------
SeqToSet(s) == {s[k] : k \in DOMAIN s}

Contains(s, x) == \E k \in DOMAIN s : s[k] = x

Min(a, b) == IF a < b THEN a ELSE b

SeqsUpTo(S, n) == UNION {[1..k -> S] : k \in 0..n}

RECURSIVE SumSeq(_)
SumSeq(s) == IF s = <<>> THEN 0 ELSE Head(s) + SumSeq(Tail(s))

\* ------------------------------------------------------------------------
\* Cells of a DataFrame.  Every cell is a record of the same shape.
\* ------------------------------------------------------------------------
StrCell(s) == [t |-> "str", s |-> s, n |-> 0]
IntCell(n) == [t |-> "int", s |-> "", n |-> n]
NaN == [t |-> "NaN", s |-> "", n |-> 0]
NaT == [t |-> "NaT", s |-> "", n |-> 0]
Datetime(s) == [t |-> "datetime", s |-> s, n |-> 0]
Now(n) == [t |-> "datetime", s |-> "now", n |-> n]

\* A DataFrame is an ordered list of column names and a list of rows, each
\* row a function from the column names to cells.  None is Python's None.
None == [tag |-> "None", columns |-> <<>>, rows |-> <<>>]

DataFrame(columns, rows) == [tag |-> "DataFrame", columns |-> columns, rows |-> rows]

\* len(df)
Len_df(df) == Len(df.rows)

\* A bug: a table with columns and no row does not count as empty.
Empty_ColumnsOnly(df) == Len(df.columns) = 0

\* df.empty: any axis of length zero
Empty(df) == Len(df.rows) = 0 \/ Len(df.columns) = 0

\* ------------------------------------------------------------------------
\* Input files
\* ------------------------------------------------------------------------
required_colums == <<"fecha", "turno", "maquina", "produccion_unidades", "operario">>

\* The date fields written in the input files: a date and a text that is
\* no date; one file has a blank date field.
DateTokens == {"2025-09-01", "sin fecha"}

OffsetEast == "2025-09-01T06:00+02:00"
OffsetWest == "2025-09-01T06:00-03:00"

\* The headers other than the required one: an extra column, a column named
\* like a provenance column, a missing column, a missing and an extra column,
\* and no fecha column.
OtherHeaders ==
    { <<"fecha", "turno", "maquina", "produccion_unidades", "operario", "observaciones">>,
      <<"fecha", "turno", "maquina", "produccion_unidades", "operario", "archivo_origen">>,
      <<"fecha", "turno", "maquina", "produccion_unidades">>,
      <<"fecha", "turno", "maquina", "produccion_unidades", "observaciones">>,
      <<"turno", "maquina", "produccion_unidades", "operario">> }

\* The text of the field of column col in a line whose date field is tok.
Sample(col, tok) ==
    CASE col = "fecha" -> tok
      [] col = "turno" -> " manana"
      [] col = "maquina" -> "ATM-1"
      [] col = "produccion_unidades" -> "120"
      [] col = "operario" -> "Lopez"
      [] col = "archivo_origen" -> "viejo.csv"
      [] OTHER -> "ok"

TextFile(header, toks) ==
    [kind |-> "text", header |-> header,
     lines |-> [k \in 1..Len(toks) |-> [j \in 1..Len(header) |-> Sample(header[j], toks[k])]]]

ZeroByte == [kind |-> "zero", header |-> <<>>, lines |-> <<>>]
Malformed == [kind |-> "malformed", header |-> <<>>, lines |-> <<>>]
NotUtf8 == [kind |-> "not_utf8", header |-> <<>>, lines |-> <<>>]
MixedOffsets == TextFile(required_colums, <<OffsetEast, OffsetWest>>)
BlankDate == TextFile(required_colums, <<"">>)

Catalogue ==
    {TextFile(required_colums, toks) : toks \in SeqsUpTo(DateTokens, MaxRows)}
    \cup {TextFile(h, [k \in 1..n |-> "2025-09-01"]) : h \in OtherHeaders, n \in 0..MaxRows}
    \cup {ZeroByte, Malformed, NotUtf8, MixedOffsets, BlankDate}

\* File names and their last four characters.
Names == {"a.csv", "b.csv", "notas.txt"}

Last4(name) ==
    CASE name = "a.csv" -> ".csv"
      [] name = "b.csv" -> ".csv"
      [] OTHER -> ".txt"

\* f.endswith('.csv')
EndsWithCsv(name) == Last4(name) = ".csv"

\* ------------------------------------------------------------------------
\* pd.read_csv(filepath, encoding='utf-8', sep=',', skipinitialspace=True)
\* ------------------------------------------------------------------------
\* skipinitialspace=True: the blanks after a separator are dropped.
SkipInitialSpace(field) ==
    CASE field = " manana" -> "manana"
      [] OTHER -> field

\* A field becomes NaN when blank, an integer when it is a numeral, and
\* stays text otherwise.
ParseField(field) ==
    LET f == SkipInitialSpace(field) IN
    CASE f = "" -> NaN
      [] f = "120" -> IntCell(120)
      [] OTHER -> StrCell(f)

IndexOf(s, x) == CHOOSE k \in DOMAIN s : s[k] = x

ParseText(content) ==
    DataFrame(content.header,
              [k \in DOMAIN content.lines |->
                  [c \in SeqToSet(content.header) |->
                      ParseField(content.lines[k][IndexOf(content.header, c)])]])

\* The outcome of a call that may raise: exc is "" when it returns.
Returned(df) == [exc |-> "", df |-> df]
Raised(exc) == [exc |-> exc, df |-> None]

pd_read_csv(content) ==
    CASE content.kind = "zero" -> Raised("EmptyDataError")
      [] content.kind = "malformed" -> Raised("ParserError")
      [] content.kind = "not_utf8" -> Raised("UnicodeDecodeError")
      [] OTHER -> Returned(ParseText(content))

\* ------------------------------------------------------------------------
\* pd.to_datetime(df['fecha'], errors='coerce')
\* ------------------------------------------------------------------------

\* A bug: errors='ignore', which leaves what is no date as it was.
ToDatetimeIgnore(cell) ==
    CASE cell = StrCell("2025-09-01") -> Datetime("2025-09-01 00:00:00")
      [] cell = StrCell(OffsetEast) -> Datetime("2025-09-01 06:00:00+02:00")
      [] cell = StrCell(OffsetWest) -> Datetime("2025-09-01 06:00:00-03:00")
      [] OTHER -> cell

\* One value: a date text becomes a timestamp at midnight (or at its own
\* time of day), anything else becomes NaT.
ToDatetimeCoerce(cell) ==
    CASE cell = StrCell("2025-09-01") -> Datetime("2025-09-01 00:00:00")
      [] cell = StrCell(OffsetEast) -> Datetime("2025-09-01 06:00:00+02:00")
      [] cell = StrCell(OffsetWest) -> Datetime("2025-09-01 06:00:00-03:00")
      [] OTHER -> NaT

\* A column mixing UTC offsets makes the conversion raise, errors='coerce'
\* or not.
ToDatetimeRaises(df) ==
    /\ \E k \in DOMAIN df.rows : df.rows[k]["fecha"] = StrCell(OffsetEast)
    /\ \E k \in DOMAIN df.rows : df.rows[k]["fecha"] = StrCell(OffsetWest)

ConvertFecha(df) ==
    IF ToDatetimeRaises(df)
    THEN Raised("ValueError")
    ELSE Returned(DataFrame(df.columns,
             [k \in DOMAIN df.rows |->
                 [df.rows[k] EXCEPT !["fecha"] = ToDatetimeCoerce(df.rows[k]["fecha"])]]))

\* df['fecha'].isna().sum()
invalid_dates(df) == Cardinality({k \in DOMAIN df.rows : df.rows[k]["fecha"] = NaT})

\* ------------------------------------------------------------------------
\* The text printed by a call: a list of events.
\* ------------------------------------------------------------------------
Ev(ev, file, cols, n) == [ev |-> ev, file |-> file, cols |-> cols, n |-> n]

\* ------------------------------------------------------------------------
\* The input folder: what os.listdir finds, in the order it lists it.
\*   kind "dir"     a readable directory
\*        "absent"  no such path
\*        "denied"  a directory that may not be listed
\*        "file"    the path is a regular file
\* ------------------------------------------------------------------------
HasEntry(entries, name) == \E k \in DOMAIN entries : entries[k].name = name

ContentOf(entries, name) == entries[CHOOSE k \in DOMAIN entries : entries[k].name = name].content

Listing(entries) == [k \in DOMAIN entries |-> entries[k].name]

\* ------------------------------------------------------------------------
\* FileProcessor.__init__
\* ------------------------------------------------------------------------
Constructor(fs0) ==
    IF fs0.kind = "absent" THEN [kind |-> "dir", entries |-> <<>>] ELSE fs0

\* ------------------------------------------------------------------------
\* FileProcessor.read_csv_file
\* ------------------------------------------------------------------------

\* A bug: no except Exception clause at the end.
ExceptClause_NoCatchAll(exc) ==
    CASE exc = "FileNotFoundError" -> "FileNotFoundError"
      [] exc = "EmptyDataError" -> "EmptyDataError"
      [] exc = "ParserError" -> "ParserError"
      [] OTHER -> ""

\* The classes named by the except clauses of read_csv_file; the last clause,
\* except Exception, takes every class of the model.
ExceptClause(exc) ==
    CASE exc = "FileNotFoundError" -> "FileNotFoundError"
      [] exc = "EmptyDataError" -> "EmptyDataError"
      [] exc = "ParserError" -> "ParserError"
      [] OTHER -> "Exception"

\* The body of the try block: the outcome and what it printed.
ReadBody(entries, filename) ==
    LET r1 == IF HasEntry(entries, filename)
              THEN pd_read_csv(ContentOf(entries, filename))
              ELSE Raised("FileNotFoundError")
        r2 == IF r1.exc = "" /\ Contains(r1.df.columns, "fecha")
              THEN ConvertFecha(r1.df)
              ELSE r1
    IN  [exc |-> r2.exc, df |-> r2.df,
         out |-> IF r2.exc # ""
                 THEN <<>>
                 ELSE (IF Contains(r2.df.columns, "fecha") /\ invalid_dates(r2.df) > 0
                       THEN <<Ev("invalid_dates", filename, <<>>, invalid_dates(r2.df))>>
                       ELSE <<>>)
                      \o <<Ev("read_ok", filename, r2.df.columns, Len_df(r2.df))>>]

\* ret is the DataFrame or None; raised is the class of an exception that
\* leaves the method, "" when none does.
read_csv_file(entries, filename) ==
    LET b == ReadBody(entries, filename) IN
    IF b.exc = ""
    THEN [ret |-> b.df, raised |-> "", out |-> b.out]
    ELSE IF ExceptClause(b.exc) # ""
         THEN [ret |-> None, raised |-> "", out |-> <<Ev(ExceptClause(b.exc), filename, <<>>, 0)>>]
         ELSE [ret |-> None, raised |-> b.exc, out |-> <<>>]

\* ------------------------------------------------------------------------
\* FileProcessor.validate_data
\* ------------------------------------------------------------------------

\* A bug: operario is not among the columns checked.
IsMissing_ButOperario(df, col) == col # "operario" /\ ~Contains(df.columns, col)

\* [col for col in required_colums if col not in df.columns]
IsMissing(df, col) == ~Contains(df.columns, col)

missing_colums(df) == SelectSeq(required_colums, LAMBDA col : IsMissing(df, col))

validate_data(df) ==
    IF df = None
    THEN [ret |-> FALSE, out |-> <<Ev("invalid_none", "", <<>>, 0)>>]
    ELSE IF Empty(df)
    THEN [ret |-> FALSE, out |-> <<Ev("invalid_empty", "", <<>>, 0)>>]
    ELSE IF missing_colums(df) # <<>>
    THEN [ret |-> FALSE, out |-> <<Ev("invalid_missing", "", missing_colums(df), 0)>>]
    ELSE [ret |-> TRUE, out |-> <<Ev("valid", "", <<>>, 0)>>]

\* ------------------------------------------------------------------------
\* df[col] = value and pd.concat(frames, ignore_index=True)
\* ------------------------------------------------------------------------
SetColumn(df, col, value) ==
    DataFrame(IF Contains(df.columns, col) THEN df.columns ELSE Append(df.columns, col),
              [k \in DOMAIN df.rows |->
                  [c \in SeqToSet(df.columns) \cup {col} |->
                      IF c = col THEN value ELSE df.rows[k][c]]])

\* The columns of the frames, one list after the other.
RECURSIVE ChainColumns(_)
ChainColumns(frames) ==
    IF frames = <<>> THEN <<>> ELSE frames[1].columns \o ChainColumns(Tail(frames))

\* The places of a list that hold a value for the first time, in order.
FirstPlaces(s) == {i \in DOMAIN s : \A j \in 1..(i - 1) : s[j] # s[i]}

NthOf(places, n) == CHOOSE i \in places : Cardinality({j \in places : j < i}) = n - 1

\* The columns of the frames, each at its first appearance.
AllColumns(frames) ==
    [n \in 1..Cardinality(FirstPlaces(ChainColumns(frames))) |->
        ChainColumns(frames)[NthOf(FirstPlaces(ChainColumns(frames)), n)]]

Reindex(df, columns) ==
    [k \in DOMAIN df.rows |->
        [c \in SeqToSet(columns) |-> IF Contains(df.columns, c) THEN df.rows[k][c] ELSE NaN]]

RECURSIVE ConcatRows(_, _)
ConcatRows(frames, columns) ==
    IF frames = <<>> THEN <<>>
    ELSE Reindex(frames[1], columns) \o ConcatRows(Tail(frames), columns)

pd_concat(frames) == DataFrame(AllColumns(frames), ConcatRows(frames, AllColumns(frames)))

\* ------------------------------------------------------------------------
\* State
\* ------------------------------------------------------------------------
VARIABLES
    fs,                \* the input folder: [kind, entries]
    created,           \* the constructor created the folder
    pc,                \* "idle", "loop", "summary", "concat", "done", "raised"
    calls,             \* calls of process_all_files so far
    clock,             \* the last reading of datetime.now()
    csv_files,         \* locals of process_all_files
    valid_dataframes,
    processed_files,
    failed_files,
    dfs_read,          \* what read_csv_file returned, one per iteration
    out,               \* what the current call has printed
    ret,               \* what the last finished call returned
    prev_ret,          \* what the call before it returned
    unchanged,         \* the folder is as it was when the previous call began
    touched            \* the folder changed since the current call began

vars == <<fs, created, pc, calls, clock, csv_files, valid_dataframes, processed_files,
          failed_files, dfs_read, out, ret, prev_ret, unchanged, touched>>

locals == <<csv_files, valid_dataframes, processed_files, failed_files, dfs_read>>

history == <<prev_ret, unchanged, touched>>

\* ------------------------------------------------------------------------
\* The folders a FileProcessor may be constructed on
\* ------------------------------------------------------------------------
\* os.listdir gives no promise of order: the folder lists its entries in an
\* order of its own, here one that is not the sorted one.
ListingOrder == <<"b.csv", "notas.txt", "a.csv">>

NameOrders == {SelectSeq(ListingOrder, LAMBDA n : n \in S) : S \in SUBSET Names}

ContentsFor(p) ==
    {c \in [DOMAIN p -> Catalogue] : \A k \in DOMAIN p : ~EndsWithCsv(p[k]) => c[k] = ZeroByte}

Directories ==
    UNION {{[kind |-> "dir", entries |-> [k \in DOMAIN p |-> [name |-> p[k], content |-> c[k]]]]
               : c \in ContentsFor(p)} : p \in NameOrders}

Folders ==
    Directories \cup {[kind |-> k, entries |-> <<>>] : k \in {"absent", "denied", "file"}}

\* The state after FileProcessor(input_folder).
Init ==
    /\ \E fs0 \in Folders :
          /\ fs = Constructor(fs0)
          /\ created = (fs0.kind = "absent")
    /\ pc = "idle"
    /\ calls = 0
    /\ clock = 0
    /\ csv_files = <<>>
    /\ valid_dataframes = <<>>
    /\ processed_files = <<>>
    /\ failed_files = <<>>
    /\ dfs_read = <<>>
    /\ out = <<>>
    /\ ret = None
    /\ prev_ret = None
    /\ unchanged = FALSE
    /\ touched = FALSE

\* ------------------------------------------------------------------------
\* FileProcessor.process_all_files
\* ------------------------------------------------------------------------
\* os.listdir(self.input_folder)
os_listdir(folder) ==
    CASE folder.kind = "absent" -> [exc |-> "FileNotFoundError", names |-> <<>>]
      [] folder.kind = "denied" -> [exc |-> "PermissionError", names |-> <<>>]
      [] folder.kind = "file" -> [exc |-> "NotADirectoryError", names |-> <<>>]
      [] OTHER -> [exc |-> "", names |-> Listing(folder.entries)]

\* A bug: the except clauses print and do not return, and the call goes on
\* with an empty listing.
ListingExcept_NoReturn(exc) ==
    IF exc \in {"FileNotFoundError", "PermissionError"} THEN "continue" ELSE "propagate"

\* The except clauses around the listing: both print and return None; any
\* other class leaves the method.
ListingExcept(exc) ==
    IF exc \in {"FileNotFoundError", "PermissionError"} THEN "return" ELSE "propagate"

\* A bug: the lists are attributes of the FileProcessor, made by the
\* constructor, and keep what the call before put in them.
KeptLists(old_valid, old_processed, old_failed) ==
    [valid_dataframes |-> old_valid, processed_files |-> old_processed,
     failed_files |-> old_failed]

\* valid_dataframes = [], processed_files = [], failed_files = []: the lists
\* are locals, made anew by every call whatever the call before left.
NewLists(old_valid, old_processed, old_failed) ==
    [valid_dataframes |-> <<>>, processed_files |-> <<>>, failed_files |-> <<>>]

\* datetime.now(): later than the reading before it, up to the bound.
datetime_now(t) == Min(t + 1, MaxClock)

Finished == pc \in {"idle", "done", "raised"}

\* The call begins: the listing, the filter and the empty-list return.
Call ==
    /\ Finished
    /\ calls < MaxCalls
    /\ calls' = calls + 1
    /\ prev_ret' = IF pc = "done" THEN ret ELSE None
    /\ unchanged' = (pc = "done" /\ ~touched)
    /\ touched' = FALSE
    /\ LET l == os_listdir(fs)
           csv == SelectSeq(l.names, EndsWithCsv)
           new == NewLists(valid_dataframes, processed_files, failed_files)
           handler == IF l.exc = "" THEN "" ELSE ListingExcept(l.exc)
       IN  /\ valid_dataframes' = new.valid_dataframes
           /\ processed_files' = new.processed_files
           /\ failed_files' = new.failed_files
           /\ dfs_read' = <<>>
           /\ ret' = None
           /\ csv_files' = csv
           /\ CASE handler = "return" ->
                     /\ pc' = "done"
                     /\ out' = <<Ev(l.exc, "", <<>>, 0)>>
                [] handler = "propagate" ->
                     /\ pc' = "raised"
                     /\ out' = <<>>
                [] handler = "" /\ csv = <<>> ->
                     /\ pc' = "done"
                     /\ out' = <<Ev("found", "", <<>>, Len(l.names)), Ev("no_csv", "", <<>>, 0)>>
                [] OTHER ->
                     /\ pc' = "loop"
                     /\ out' = (IF handler = "" THEN <<>> ELSE <<Ev(l.exc, "", <<>>, 0)>>)
                               \o <<Ev("found", "", csv, Len(l.names))>>
    /\ UNCHANGED <<fs, created, clock>>

\* The two metadata columns of an accepted DataFrame.
Stamp(df, filename, now) ==
    SetColumn(SetColumn(df, "archivo_origen", StrCell(filename)),
              "fecha_procesamiento", Now(now))

\* A bug: the check of the required columns is left out of the acceptance.
Accepts_WithoutColumns(df) == df # None /\ ~Empty(df)

\* df is not None and self.validate_data(df)
Accepts(df) == df # None /\ validate_data(df).ret

\* A bug: the loop stops at the first file that fails.
LoopDone_AtFirstFailure(files, n, failed) == n = Len(files) \/ failed # <<>>

\* for filename in csv_files: the loop ends when every file had its turn.
LoopDone(files, n, failed) == n = Len(files)

\* The iteration of the for loop for filename: the read, the validation and
\* the stamping, as the values it leaves.
Iteration(entries, filename, now) ==
    LET r == read_csv_file(entries, filename) IN
    [raised |-> r.raised,
     df |-> r.ret,
     accepted |-> Accepts(r.ret),
     stamped |-> IF Accepts(r.ret) THEN Stamp(r.ret, filename, now) ELSE None,
     out |-> r.out \o (IF r.ret # None THEN validate_data(r.ret).out ELSE <<>>)]

\* One iteration of the for loop, for the next file of csv_files.
ProcessFile ==
    /\ pc = "loop"
    /\ ~LoopDone(csv_files, Len(dfs_read), failed_files)
    /\ \E filename \in {csv_files[Len(dfs_read) + 1]} :
       \E it \in {Iteration(fs.entries, filename, datetime_now(clock))} :
          IF it.raised # ""
          THEN /\ pc' = "raised"
               /\ out' = out \o it.out
               /\ UNCHANGED <<clock, valid_dataframes, processed_files, failed_files, dfs_read>>
          ELSE /\ pc' = "loop"
               /\ dfs_read' = Append(dfs_read, it.df)
               /\ processed_files' = Append(processed_files, filename)
               /\ IF it.accepted
                  THEN /\ clock' = datetime_now(clock)
                       /\ valid_dataframes' = Append(valid_dataframes, it.stamped)
                       /\ failed_files' = failed_files
                       /\ out' = out \o it.out \o <<Ev("ok", filename, <<>>, 0)>>
                  ELSE /\ clock' = clock
                       /\ valid_dataframes' = valid_dataframes
                       /\ failed_files' = Append(failed_files, filename)
                       /\ out' = out \o it.out \o <<Ev("failed", filename, <<>>, 0)>>
    /\ UNCHANGED <<fs, created, calls, csv_files, ret, history>>

\* The for loop is over: the summary is printed.
Summary ==
    /\ pc = "loop"
    /\ LoopDone(csv_files, Len(dfs_read), failed_files)
    /\ pc' = "concat"
    /\ out' = out \o <<Ev("summary", "", failed_files, Len(processed_files))>>
    /\ UNCHANGED <<fs, created, calls, clock, locals, ret, history>>

\* The statistics printed of the combined DataFrame read these columns.
ReportColumns == {"fecha", "maquina", "turno"}

\* A bug: the combining is not guarded against an empty list.
HasValid_Unguarded(frames) == TRUE

\* if valid_dataframes:
HasValid(frames) == frames # <<>>

\* The valid DataFrames are combined and returned, or None is.  pd.concat
\* raises on an empty list, and the statistics raise on a missing column.
Combine ==
    /\ pc = "concat"
    /\ IF HasValid(valid_dataframes)
       THEN \E combined_df \in {pd_concat(valid_dataframes)} :
            IF valid_dataframes # <<>> /\ ReportColumns \subseteq SeqToSet(combined_df.columns)
            THEN /\ pc' = "done"
                 /\ ret' = combined_df
                 /\ out' = out \o <<Ev("completed", "", <<>>, Len_df(combined_df))>>
            ELSE /\ pc' = "raised"
                 /\ ret' = None
                 /\ out' = out
       ELSE /\ pc' = "done"
            /\ ret' = None
            /\ out' = out \o <<Ev("none_valid", "", <<>>, 0)>>
    /\ UNCHANGED <<fs, created, calls, clock, locals, history>>

\* ------------------------------------------------------------------------
\* The environment: other programs changing the input folder
\* ------------------------------------------------------------------------
Touch ==
    /\ touched' = TRUE
    /\ unchanged' = FALSE
    /\ prev_ret' = prev_ret

\* A file of the folder is deleted, also while a call is running.
DeleteFile ==
    /\ fs.kind = "dir"
    /\ calls < MaxCalls \/ ~Finished
    /\ \E k \in DOMAIN fs.entries :
          fs' = [fs EXCEPT !.entries = SelectSeq(fs.entries, LAMBDA e : e # fs.entries[k])]
    /\ Touch
    /\ UNCHANGED <<created, pc, calls, clock, locals, out, ret>>

\* Between two calls the folder is removed, or the right to list it changes.
RemoveFolder ==
    /\ Finished /\ calls < MaxCalls
    /\ fs.kind \in {"dir", "file"}
    /\ fs' = [kind |-> "absent", entries |-> <<>>]
    /\ Touch
    /\ UNCHANGED <<created, pc, calls, clock, locals, out, ret>>

DenyAccess ==
    /\ Finished /\ calls < MaxCalls
    /\ fs.kind = "dir"
    /\ fs' = [fs EXCEPT !.kind = "denied"]
    /\ Touch
    /\ UNCHANGED <<created, pc, calls, clock, locals, out, ret>>

AllowAccess ==
    /\ Finished /\ calls < MaxCalls
    /\ fs.kind = "denied"
    /\ fs' = [fs EXCEPT !.kind = "dir"]
    /\ Touch
    /\ UNCHANGED <<created, pc, calls, clock, locals, out, ret>>

Run == Call \/ ProcessFile \/ Summary \/ Combine

Environment == DeleteFile \/ RemoveFolder \/ DenyAccess \/ AllowAccess

Next == Run \/ Environment

Spec == Init /\ [][Next]_vars

\* ========================================================================
\* Properties
\* ========================================================================
\* The five required columns, as the specification lists them.
FiveRequired == {"fecha", "turno", "maquina", "produccion_unidades", "operario"}

\* The DataFrame passes validate_data.
Passes(df) == validate_data(df).ret

\* The file names written in the archivo_origen column of a DataFrame.
Origins(df) == {df.rows[i]["archivo_origen"].s : i \in DOMAIN df.rows}

\* The rows of a combined DataFrame that name the file as their origin.
RowsFrom(df, name) == {i \in DOMAIN df.rows : df.rows[i]["archivo_origen"] = StrCell(name)}

LoopOver == pc \in {"concat", "done"} /\ csv_files # <<>>

Returned_df == pc = "done" /\ ret # None

\* The file of iteration k is still in the folder, so it is the file that
\* iteration k read: the environment deletes files and never rewrites one.
StillThere(k) == HasEntry(fs.entries, csv_files[k])

FileOf(k) == ContentOf(fs.entries, csv_files[k])

NeverMerged(name) ==
    /\ Contains(failed_files, name)
    /\ \A j \in DOMAIN valid_dataframes : name \notin Origins(valid_dataframes[j])
    /\ Returned_df => RowsFrom(ret, name) = {}

\* ------------------------------------------------------------------------
\* C1: when the per-file loop of process_all_files is over, every discovered
\* .csv file is in exactly one of the accepted DataFrames and the failed-file
\* list; a file that fails parsing or validation is in the failed-file list
\* and gives the result no row; and the row count of the returned DataFrame
\* is the sum of the row counts of the files that pass validate_data.
\* ------------------------------------------------------------------------
C1_RowCountAndPartition ==
    LoopOver =>
        /\ Len(dfs_read) = Len(csv_files)
        /\ Len(valid_dataframes) + Len(failed_files) = Len(csv_files)
        /\ \A k \in DOMAIN csv_files :
              IF Passes(dfs_read[k])
              THEN /\ ~Contains(failed_files, csv_files[k])
                   /\ \E j \in DOMAIN valid_dataframes :
                         Origins(valid_dataframes[j]) = {csv_files[k]}
              ELSE NeverMerged(csv_files[k])
        /\ pc = "done" =>
              Len_df(ret) = SumSeq([k \in DOMAIN dfs_read |->
                               IF Passes(dfs_read[k]) THEN Len_df(dfs_read[k]) ELSE 0])

\* A run with one accepted file of two rows or more and one failed file.
C1_Witness ==
    /\ Returned_df
    /\ Len(valid_dataframes) = 1
    /\ Len(failed_files) = 1
    /\ Len_df(ret) >= 2

\* ------------------------------------------------------------------------
\* C2: once the listing gave a non-empty list of .csv files, the loop reads
\* every file of the list exactly once, in listing order, whatever became of
\* the files before it, and no failure of a file ends it early: the loop
\* begins with nothing read, each of its steps reads the next file of the
\* list and no other, and it is left only for the summary, with the whole
\* list read.
\* ------------------------------------------------------------------------
SummaryPrinted == \E k \in DOMAIN out : out[k].ev = "summary"

LoopBegins ==
    /\ pc # "loop" /\ pc' = "loop"
    /\ csv_files' # <<>>
    /\ processed_files' = <<>> /\ dfs_read' = <<>>

LoopReadsNext ==
    /\ pc = "loop" /\ pc' = "loop"
    /\ Len(processed_files) < Len(csv_files)
    /\ csv_files' = csv_files
    /\ processed_files' = Append(processed_files, csv_files[Len(processed_files) + 1])
    /\ Len(dfs_read') = Len(processed_files')
    /\ ~SummaryPrinted'

LoopEndsInSummary ==
    /\ pc = "loop" /\ pc' = "concat"
    /\ processed_files = csv_files
    /\ Len(dfs_read) = Len(csv_files)
    /\ UNCHANGED locals
    /\ SummaryPrinted'

C2_EveryFileThenSummary ==
    [][(pc = "loop" \/ pc' = "loop") =>
          \/ LoopBegins
          \/ LoopReadsNext
          \/ LoopEndsInSummary
          \/ UNCHANGED <<pc, locals, out>>]_vars

\* The summary of a run whose first file failed to parse and whose second
\* file was accepted.
C2_Witness ==
    /\ pc = "concat"
    /\ Len(csv_files) = 2
    /\ dfs_read[1] = None
    /\ Len(valid_dataframes) = 1

\* ------------------------------------------------------------------------
\* C3: validate_data rejects every non-empty table that lacks one of the
\* five required columns, and the list of missing columns it reports is ...
\* ------------------------------------------------------------------------
TablesRead == {dfs_read[k] : k \in DOMAIN dfs_read}

LacksRequired(df) == df # None /\ ~Empty(df) /\ FiveRequired \ SeqToSet(df.columns) # {}

\* The list validate_data prints with its missing-column message.
Reported(df) ==
    LET o == validate_data(df).out IN
    IF o[1].ev = "invalid_missing" THEN o[1].cols ELSE <<>>

SymmetricDifference(A, B) == (A \ B) \cup (B \ A)

\* C3 as stated: ... exactly the symmetric difference between the required
\* columns and the columns of the table.
C3_SymmetricDifference ==
    \A df \in TablesRead :
        LacksRequired(df) =>
            /\ ~Passes(df)
            /\ SeqToSet(Reported(df)) = SymmetricDifference(FiveRequired, SeqToSet(df.columns))

\* C3 as amended: ... exactly the required columns that the table lacks,
\* each once; a column of the table that is not required is not reported.
C3_RequiredMinusPresent ==
    \A df \in TablesRead :
        LacksRequired(df) =>
            /\ ~Passes(df)
            /\ SeqToSet(Reported(df)) = FiveRequired \ SeqToSet(df.columns)
            /\ Len(Reported(df)) = Cardinality(FiveRequired \ SeqToSet(df.columns))

\* A table was read that lacks operario and has a column that is not
\* required, and its file failed.
C3_Witness ==
    \E k \in DOMAIN dfs_read :
        /\ LacksRequired(dfs_read[k])
        /\ Contains(dfs_read[k].columns, "observaciones")
        /\ Contains(failed_files, csv_files[k])

\* ------------------------------------------------------------------------
\* C4: a zero-byte file and a header-only file (column names, no data row)
\* are never merged into the combined DataFrame, and ...
\* ------------------------------------------------------------------------
IsZeroByte(content) == content.kind = "zero"

IsHeaderOnly(content) == content.kind = "text" /\ content.lines = <<>>

EmptyInputRaised(name) == Contains(out, Ev("EmptyDataError", name, <<>>, 0))

\* C4 as stated: ... both are rejected by read_csv_file, which returns None
\* for them with the empty-input failure.
C4_BothEmptyInput ==
    \A k \in DOMAIN dfs_read :
        (StillThere(k) /\ (IsZeroByte(FileOf(k)) \/ IsHeaderOnly(FileOf(k)))) =>
            /\ dfs_read[k] = None
            /\ EmptyInputRaised(csv_files[k])
            /\ NeverMerged(csv_files[k])

\* C4 as amended: ... read_csv_file returns None with the empty-input failure
\* for the zero-byte file only; for the header-only file it returns a table
\* of the header's columns and no row, without that failure, and
\* validate_data rejects the table as empty.
C4_EmptyInputOrEmptyTable ==
    \A k \in DOMAIN dfs_read :
        /\ (StillThere(k) /\ IsZeroByte(FileOf(k))) =>
              /\ dfs_read[k] = None
              /\ EmptyInputRaised(csv_files[k])
              /\ NeverMerged(csv_files[k])
        /\ (StillThere(k) /\ IsHeaderOnly(FileOf(k))) =>
              /\ dfs_read[k] # None
              /\ dfs_read[k].columns = FileOf(k).header
              /\ Len_df(dfs_read[k]) = 0
              /\ ~EmptyInputRaised(csv_files[k])
              /\ validate_data(dfs_read[k]).out = <<Ev("invalid_empty", "", <<>>, 0)>>
              /\ NeverMerged(csv_files[k])

\* A run that read a header-only file with the five required columns and
\* another that read a zero-byte file, both failed.
C4_Witness ==
    /\ Len(dfs_read) = 2
    /\ StillThere(1) /\ IsHeaderOnly(FileOf(1)) /\ FileOf(1).header = required_colums
    /\ StillThere(2) /\ IsZeroByte(FileOf(2))
    /\ Len(failed_files) = 2

\* ------------------------------------------------------------------------
\* C5: a file read into a table with the five required columns and at least
\* one row is accepted and merged with all of its rows even when some or all
\* of its date fields are no dates: each such field is NaT in its row, and
\* the file is not in the failed-file list.
\* ------------------------------------------------------------------------
\* The date fields of the input files that are dates.
ParseableDates == {"2025-09-01", OffsetEast, OffsetWest}

DateField(content, i) == content.lines[i][IndexOf(content.header, "fecha")]

BadDates(content) ==
    {i \in DOMAIN content.lines : DateField(content, i) \notin ParseableDates}

SchemaValidFile(k) ==
    /\ StillThere(k)
    /\ dfs_read[k] # None
    /\ FileOf(k).kind = "text"
    /\ FiveRequired \subseteq SeqToSet(FileOf(k).header)
    /\ Len(FileOf(k).lines) >= 1

SameContent(a, b) ==
    /\ a.tag = b.tag
    /\ a.columns = b.columns
    /\ Len(a.rows) = Len(b.rows)
    /\ \A i \in DOMAIN a.rows :
          \A c \in SeqToSet(a.columns) \ {"fecha_procesamiento"} :
              a.rows[i][c] = b.rows[i][c]

C6_SecondCallSameContent ==
    (pc = "done" /\ unchanged /\ ~touched) => SameContent(ret, prev_ret)

\* A second call over an unchanged folder that returned a DataFrame, with
\* timestamps other than those of the first.
C6_Witness ==
    /\ Returned_df
    /\ unchanged /\ ~touched
    /\ ret # prev_ret
    /\ Len_df(ret) >= 2

\* ------------------------------------------------------------------------
\* C7: process_all_files returns None exactly when no discovered file passes
\* both parsing and validation, which takes in an empty folder and a folder
\* the constructor has just created, and raises nothing then; it returns a
\* DataFrame whenever a file is accepted.
\* ------------------------------------------------------------------------
SomeFilePasses == \E k \in DOMAIN dfs_read : Passes(dfs_read[k])

NoCsvInFolder == \A k \in DOMAIN fs.entries : ~EndsWithCsv(fs.entries[k].name)

ListingFailed == calls >= 1 /\ ~touched /\ fs.kind \in {"absent", "denied"}

C8_ListingFailureAborts ==
    ListingFailed =>
        /\ pc = "done"
        /\ ret = None
        /\ dfs_read = <<>> /\ processed_files = <<>>
        /\ valid_dataframes = <<>> /\ failed_files = <<>>
        /\ Len(out) = 1
        /\ out[1].ev = (IF fs.kind = "absent" THEN "FileNotFoundError" ELSE "PermissionError")

\* A call on a folder that holds files and may not be listed.
C8_Witness ==
    /\ ListingFailed
    /\ fs.kind = "denied"
    /\ \E k \in DOMAIN fs.entries : EndsWithCsv(fs.entries[k].name)
    /\ pc = "done"

\* ------------------------------------------------------------------------
\* C9: for every file name and every fault of the reading (a missing file,
\* an empty file, malformed text, any other fault, one of the date conversion
\* included) read_csv_file returns a DataFrame or None, None when there was
\* a fault, and no exception leaves it for process_all_files.
\* ------------------------------------------------------------------------
FaultClasses ==
    {"FileNotFoundError", "EmptyDataError", "ParserError", "UnicodeDecodeError", "ValueError"}

C9_ReadNeverRaises ==
    /\ \A name \in Names :
          LET b == ReadBody(fs.entries, name)
              r == read_csv_file(fs.entries, name)
          IN  /\ b.exc \in FaultClasses \cup {""}
              /\ r.raised = ""
              /\ r.ret.tag \in {"None", "DataFrame"}
              /\ b.exc # "" => r.ret = None
    /\ \A k \in DOMAIN dfs_read : dfs_read[k].tag \in {"None", "DataFrame"}
    /\ pc = "raised" => dfs_read = <<>> /\ csv_files = <<>>

\* A run read a file whose date conversion raised, got None for it and went
\* on to the summary.
C9_Witness ==
    /\ pc = "concat"
    /\ \E k \in DOMAIN dfs_read :
          /\ StillThere(k)
          /\ FileOf(k) = MixedOffsets
          /\ dfs_read[k] = None
          /\ Contains(out, Ev("Exception", csv_files[k], <<>>, 0))

\* ------------------------------------------------------------------------
\* C10: the stamping of an accepted DataFrame only appends the columns
\* archivo_origen and fecha_procesamiento: for every accepted file, one whose
\* header already has a column of one of those names included, the values of
\* all columns read from the file are unchanged in the combined DataFrame,
\* and every row's archivo_origen is the name of the file the row came from.
\* ------------------------------------------------------------------------
AcceptedIterations == SelectSeq([k \in DOMAIN dfs_read |-> k], LAMBDA k : Accepts(dfs_read[k]))

\* The rows of the combined DataFrame before those of the j-th accepted file.
RowsBefore(j) == SumSeq([i \in 1..(j - 1) |-> Len_df(dfs_read[AcceptedIterations[i]])])

C10_StampOnlyAppends ==
    Returned_df =>
        \A j \in DOMAIN AcceptedIterations :
            LET k == AcceptedIterations[j]
                df == dfs_read[k]
            IN  \A i \in DOMAIN df.rows :
                    LET row == ret.rows[RowsBefore(j) + i] IN
                    /\ row["archivo_origen"] = StrCell(csv_files[k])
                    /\ \A c \in SeqToSet(df.columns) : row[c] = df.rows[i][c]

====
